---- MODULE Spec2Model ----
(***************************************************************************)
(* Vadar trading bot: the trade path (execute_smart_trade, perform_swap,   *)
(* verify_account, swap_tokens), the portfolio ledger (PortfolioMonitor    *)
(* snapshots, save/load of portfolio_history.json), the autonomous loop    *)
(* (run_autonomous_loop, run_trading_cycle) and the functions of the       *)
(* balance and price reads (snapshot build, opportunity detector, risk     *)
(* assessment, portfolio analysis).                                        *)
(*                                                                         *)
(* Numbers.  Token amounts are fixed-point integers, One units per token   *)
(* (1.0 token = 1000).  Percentages are in tenths of a percent (30% =      *)
(* 300).  Balances are multiples of One, so balance * (percentage / 100)   *)
(* is exact.  Only finite numbers are modelled (no NaN / infinity).        *)
(***************************************************************************)
EXTENDS Integers, Sequences, FiniteSets, TLC

\* ---------------------------------------------------------------- bounds
MaxTrades == 2      \* calls of execute_smart_trade in one run
MaxSwaps == 2       \* calls of perform_swap in one run
MaxSnapshots == 3   \* snapshots recorded over the ledger's lifetime
MaxStarts == 3      \* starts of the portfolio monitor process
MaxClock == 2       \* largest reading of the wall clock, in days
MaxCycles == 3      \* trading cycles started by one run of the autonomous loop

\* ------------------------------------------------------------- constants
One == 1000                 \* the number 1.0 in fixed point
MinTradeAmount == One       \* self.min_trade_amount = 1.0
MaxTradePercentage == 300   \* self.max_trade_percentage * 100 = 30 (%), in tenths
VerifyAmount == One         \* verify_account needs and trades 1.0 USDC
Day == 1                    \* timedelta(hours=24) on the wall clock
BackoffSeconds == 300       \* time.sleep(300) after an error in the loop
Cent == 100                 \* the balance 1.0 in a balance read (hundredths of a token)
Milli == 1000               \* the price 1.0 in a price read (thousandths of a dollar)
Failed == -1                \* a read the exchange did not answer

\* self.supported_tokens
supported_tokens == {"USDC", "DAI", "WETH"}

\* token_address(symbol): symbol.upper() looked up in the address table,
\* "" for an unknown symbol.
Upper(s) ==
    CASE s = "usdc" -> "USDC"
      [] s = "dai"  -> "DAI"
      [] s = "weth" -> "WETH"
      [] OTHER      -> s

token_address(symbol) ==
    CASE Upper(symbol) = "USDC" -> "0xA0b8"
      [] Upper(symbol) = "DAI"  -> "0x6B17"
      [] Upper(symbol) = "WETH" -> "0xC02a"
      [] OTHER                  -> ""

\* p.strip() on the fields of the trade parameter string
Strip(s) ==
    CASE s = " USDC " -> "USDC"
      [] s = " 10 "   -> "10"
      [] OTHER        -> s

\* float(percentage_str): the value in tenths of a percent; ok = FALSE is
\* the ValueError float() raises on a string that is no number.
ParseFloat(s) ==
    CASE s = "0"    -> [ok |-> TRUE, v |-> 0]
      [] s = "10"   -> [ok |-> TRUE, v |-> 100]
      [] s = "30"   -> [ok |-> TRUE, v |-> 300]
      [] s = "30.1" -> [ok |-> TRUE, v |-> 301]
      [] s = "35"   -> [ok |-> TRUE, v |-> 350]
      [] OTHER      -> [ok |-> FALSE, v |-> 0]

\* ------------------------------------------------------------ input sets
TokenFields == {"USDC", "WETH", " USDC ", "XXX"}
PercentFields == {"0", "10", " 10 ", "30", "30.1", "35", "abc"}
TradeParams ==
    {<<f, t, p>> : f \in TokenFields, t \in TokenFields, p \in PercentFields}
        \cup {<<"USDC", "WETH">>}
BalanceValues == {0, 5 * One, 10 * One}
SwapSymbols == {"USDC", "WETH", "usdc", "XXX"}
SwapAmounts == {One, 6 * One}
TotalValues == {0, 1000, 1100}

VARIABLES
    balance,        \* exchange: the account's balance per token (GET /api/agent/portfolio)
    est,            \* execute_smart_trade: position and locals of the current/last call
    estCalls,       \* number of execute_smart_trade calls so far
    trade_history,  \* EnhancedTradingAgent.trade_history
    sw,             \* perform_swap: position and locals of the current/last call
    verify,         \* verify_account: position and locals
    request,        \* the last POST /api/trade/execute request sent
    nRequests,      \* number of trade requests sent so far
    nSwaps,         \* number of perform_swap calls so far
    mon,            \* portfolio monitor process: "down", "ready", or its place in a save
    snapshots,      \* PortfolioMonitor.snapshots
    trades,         \* PortfolioMonitor.trades
    file,           \* portfolio_history.json
    firstEver,      \* history: total_value of the first snapshot ever recorded (-1: none yet)
    nSnapshots,     \* number of snapshots recorded over the ledger's lifetime
    nStarts,        \* number of starts of the monitor process
    now,            \* the wall clock datetime.now() reads, in days
    saveFailed,     \* history: a save of the running monitor process has failed
    loop,           \* run_autonomous_loop: position, locals and the cycle's position
    reads,          \* what the exchange answers the balance and price reads per token
    built,          \* tokens_data and total_value create_portfolio_snapshot builds
    opportunities,  \* the list analyze_trading_opportunities builds
    risk,           \* the report assess_risk builds
    initial_portfolio_value,    \* EnhancedTradingAgent.initial_portfolio_value (-1: None)
    analysis        \* the report get_portfolio_analysis builds

tradeVars == <<balance, est, estCalls, trade_history, sw, verify, request, nRequests, nSwaps>>
ledgerVars == <<mon, snapshots, trades, file, firstEver, nSnapshots, nStarts, now, saveFailed>>
agentVars == <<loop, reads, built, opportunities, risk, initial_portfolio_value, analysis>>
vars == <<tradeVars, ledgerVars, agentVars>>

\* ------------------------------------------------------------- exchange
\* get_balance(token): the amount of the portfolio entry whose symbol
\* matches token case-insensitively; 0.0 when the portfolio cannot be
\* fetched (ok = FALSE) or holds no such entry.
get_balance(token, ok) ==
    IF ok /\ Upper(token) \in supported_tokens THEN balance[Upper(token)] ELSE 0

\* The account's balances change on the exchange at any time.
ExchangeBalanceChange(t, v) ==
    /\ balance[t] # v
    /\ balance' = [balance EXCEPT ![t] = v]
    /\ UNCHANGED <<est, estCalls, trade_history, sw, verify, request, nRequests, nSwaps>>
    /\ UNCHANGED <<ledgerVars, agentVars>>

\* ------------------------------------------------- execute_smart_trade
EstIdle ==
    [pc |-> "idle", from_token |-> "", to_token |-> "", percentage |-> 0,
     from_balance |-> 0, trade_amount |-> 0, verdict |-> "none",
     reason |-> "none", ret |-> "none"]

\* Faulty variant: the percentage is divided by 10 instead of 100.
TradeAmount_Mut(from_balance, percentage) == (from_balance * percentage) \div 100

\* trade_amount = from_balance * (percentage / 100)
TradeAmount(from_balance, percentage) == (from_balance * percentage) \div 1000

\* The check of the tokens (line 291)
TokensSupported(from_token, to_token) ==
    ~(from_token \notin supported_tokens \/ to_token \notin supported_tokens)

\* Faulty variant: the upper limit is excluded (>= instead of >).
PercentageValid_Mut(percentage) ==
    ~(percentage <= 0 \/ percentage >= MaxTradePercentage)

\* The check of the percentage (line 295)
PercentageValid(percentage) ==
    ~(percentage <= 0 \/ percentage > MaxTradePercentage)

\* Faulty variant: no amount is too small
AmountLargeEnough_Mut(trade_amount) == trade_amount >= 0

\* The check of the amount (line 302)
AmountLargeEnough(trade_amount) == ~(trade_amount < MinTradeAmount)

\* Lines 283-303 up to the balance read: the verdict on the parameter string
\* before the balance is needed ("NeedBalance" when the token and percentage
\* checks passed).
PreValidate(params) ==
    IF Len(params) # 3 THEN "InvalidFormat"
    ELSE IF ~ParseFloat(Strip(params[3])).ok THEN "ValueError"
    ELSE IF ~TokensSupported(Strip(params[1]), Strip(params[2])) THEN "UnsupportedToken"
    ELSE IF ~PercentageValid(ParseFloat(Strip(params[3])).v) THEN "PercentageOutOfRange"
    ELSE "NeedBalance"

\* The value execute_smart_trade returns for a verdict that ends the call
RetOf(verdict) ==
    CASE verdict = "InvalidFormat"        -> "InvalidFormat"
      [] verdict = "ValueError"           -> "ExecutionFailed"
      [] verdict = "UnsupportedToken"     -> "UnsupportedToken"
      [] verdict = "PercentageOutOfRange" -> "InvalidPercentage"
      [] verdict = "AmountTooSmall"       -> "AmountTooSmall"
      [] OTHER                            -> "none"

\* execute_smart_trade, lines 279-303: parse, validate, read the balance,
\* size the trade.
ExecuteSmartTrade_Validate(params, ok) ==
    /\ est.pc \in {"idle", "done"}
    /\ estCalls < MaxTrades
    /\ estCalls' = estCalls + 1
    /\ LET pre == PreValidate(params) IN
       IF pre = "InvalidFormat"
       THEN est' = [EstIdle EXCEPT !.pc = "done", !.verdict = pre, !.ret = RetOf(pre)]
       ELSE LET from_token == Strip(params[1])
                to_token == Strip(params[2])
                parsed == ParseFloat(Strip(params[3]))
                from_balance == get_balance(from_token, ok)
                trade_amount == TradeAmount(from_balance, parsed.v)
                verdict == IF pre # "NeedBalance" THEN pre
                           ELSE IF ~AmountLargeEnough(trade_amount) THEN "AmountTooSmall"
                           ELSE "Validated"
            IN est' = [pc |-> IF verdict = "Validated" THEN "reason" ELSE "done",
                       from_token |-> from_token,
                       to_token |-> to_token,
                       percentage |-> parsed.v,
                       from_balance |-> IF pre = "NeedBalance" THEN from_balance ELSE 0,
                       trade_amount |-> IF pre = "NeedBalance" THEN trade_amount ELSE 0,
                       verdict |-> verdict,
                       reason |-> "none",
                       ret |-> RetOf(verdict)]
    /\ UNCHANGED <<balance, trade_history, sw, verify, request, nRequests, nSwaps>>
    /\ UNCHANGED <<ledgerVars, agentVars>>

\* Lines 305-308: the reason is asked of the LLM; an exception of the call
\* (llmOk = FALSE) is caught at line 328 and ends the trade.
ExecuteSmartTrade_Reason(llmOk) ==
    /\ est.pc = "reason"
    /\ est' = IF llmOk
              THEN [est EXCEPT !.pc = "swap", !.reason = "text"]
              ELSE [est EXCEPT !.pc = "done", !.ret = "ExecutionFailed"]
    /\ UNCHANGED <<balance, estCalls, trade_history, sw, verify, request, nRequests, nSwaps>>
    /\ UNCHANGED <<ledgerVars, agentVars>>

\* def perform_swap(from_token, to_token, amount, chain="evm")
PerformSwapParameters == {"from_token", "to_token", "amount", "chain"}

\* A call binds when every keyword it passes names a parameter; otherwise
\* Python raises TypeError before the body runs.
CallBinds(keywords) == keywords \subseteq PerformSwapParameters

SwIdle ==
    [pc |-> "idle", caller |-> "none", from_token |-> "", to_token |-> "",
     amount |-> 0, current_balance |-> 0, result |-> "none"]

SwCall(caller, from_token, to_token, amount) ==
    [SwIdle EXCEPT !.pc = "recheck", !.caller = caller, !.from_token = from_token,
                   !.to_token = to_token, !.amount = amount]

\* Lines 310-312: perform_swap(from_token, to_token, trade_amount, "evm",
\* reason=reason); a TypeError of the call is caught at line 328.
ExecuteSmartTrade_Swap ==
    /\ est.pc = "swap"
    /\ IF CallBinds({"reason"})
       THEN /\ sw.pc \in {"idle", "done"}
            /\ nSwaps < MaxSwaps
            /\ nSwaps' = nSwaps + 1
            /\ est' = [est EXCEPT !.pc = "in_swap"]
            /\ sw' = SwCall("execute_smart_trade", est.from_token, est.to_token,
                            est.trade_amount)
       ELSE /\ est' = [est EXCEPT !.pc = "done", !.ret = "ExecutionFailed"]
            /\ UNCHANGED <<sw, nSwaps>>
    /\ UNCHANGED <<balance, estCalls, trade_history, verify, request, nRequests>>
    /\ UNCHANGED <<ledgerVars, agentVars>>

\* ---------------------------------------------------------- perform_swap
\* Faulty variant: only an empty balance is refused.
BalanceSufficient_Mut(current_balance, amount) == ~(current_balance <= 0)

\* Line 172: if current_balance < amount: return "Insufficient balance"
BalanceSufficient(current_balance, amount) == ~(current_balance < amount)

\* Lines 190-221: the value perform_swap returns for the exchange's answer
SwapResult(resp) ==
    CASE resp = "200_success" -> "SwapSuccessful"
      [] resp = "200_failure" -> "SwapFailed"
      [] resp = "400"         -> "InvalidTradeParameters"
      [] resp = "401"         -> "AuthenticationFailed"
      [] resp = "404"         -> "EndpointNotFound"
      [] resp = "500"         -> "HttpError"
      [] OTHER                -> "NetworkError"

Responses == {"200_success", "200_failure", "400", "401", "404", "500", "network_error"}

\* Lines 314-326, the caller's code after perform_swap returned: the trade
\* record is appended to trade_history and the trade reported as executed.
TradeRecordOf(e, result) ==
    [from_token |-> e.from_token, to_token |-> e.to_token, amount |-> e.trade_amount,
     percentage |-> e.percentage, reason |-> e.reason, result |-> result]

\* perform_swap returns `result` to its caller, which runs on.
Return(result) ==
    /\ IF sw.caller = "execute_smart_trade"
       THEN /\ trade_history' = Append(trade_history, TradeRecordOf(est, result))
            /\ est' = [est EXCEPT !.pc = "done", !.ret = "TradeExecuted"]
            /\ verify' = verify
       ELSE /\ verify' = IF sw.caller = "verify_account"
                         THEN [verify EXCEPT !.pc = "done"] ELSE verify
            /\ UNCHANGED <<trade_history, est>>

\* Lines 170-173: the balance of from_token is read again and the swap
\* refused when it is below the amount.
PerformSwap_Recheck(ok) ==
    /\ sw.pc = "recheck"
    /\ LET current_balance == get_balance(sw.from_token, ok) IN
       IF BalanceSufficient(current_balance, sw.amount)
       THEN /\ sw' = [sw EXCEPT !.pc = "post", !.current_balance = current_balance]
            /\ UNCHANGED <<est, trade_history, verify>>
       ELSE /\ sw' = [sw EXCEPT !.pc = "done", !.current_balance = current_balance,
                                !.result = "InsufficientBalance"]
            /\ Return("InsufficientBalance")
    /\ UNCHANGED <<balance, estCalls, request, nRequests, nSwaps>>
    /\ UNCHANGED <<ledgerVars, agentVars>>

\* Lines 175-221: the trade request is sent and the answer turned into the
\* returned value.
PerformSwap_Post(resp) ==
    /\ sw.pc = "post"
    /\ request' = [fromToken |-> token_address(sw.from_token),
                   toToken |-> token_address(sw.to_token),
                   amount |-> sw.amount]
    /\ nRequests' = nRequests + 1
    /\ sw' = [sw EXCEPT !.pc = "done", !.result = SwapResult(resp)]
    /\ Return(SwapResult(resp))
    /\ UNCHANGED <<balance, estCalls, nSwaps>>
    /\ UNCHANGED <<ledgerVars, agentVars>>

\* swap_tokens(from_token, to_token, amount): the legacy entry, lines 295-297
SwapTokens(from_token, to_token, amount) ==
    /\ sw.pc \in {"idle", "done"}
    /\ est.pc # "in_swap"
    /\ verify.pc # "in_swap"
    /\ nSwaps < MaxSwaps
    /\ nSwaps' = nSwaps + 1
    /\ sw' = SwCall("swap_tokens", from_token, to_token, amount)
    /\ UNCHANGED <<balance, est, estCalls, trade_history, verify, request, nRequests>>
    /\ UNCHANGED <<ledgerVars, agentVars>>

\* verify_account, lines 223-249: a test trade of 1.0 USDC to WETH when the
\* USDC balance read is at least 1.0.
VerifyAccount(ok) ==
    /\ sw.pc \in {"idle", "done"}
    /\ est.pc # "in_swap"
    /\ verify.pc # "in_swap"
    /\ nSwaps < MaxSwaps
    /\ LET usdc_balance == get_balance("USDC", ok) IN
       IF usdc_balance >= VerifyAmount
       THEN /\ verify' = [pc |-> "in_swap", usdc_balance |-> usdc_balance]
            /\ sw' = SwCall("verify_account", "USDC", "WETH", VerifyAmount)
            /\ nSwaps' = nSwaps + 1
       ELSE /\ verify' = [pc |-> "done", usdc_balance |-> usdc_balance]
            /\ UNCHANGED <<sw, nSwaps>>
    /\ UNCHANGED <<balance, est, estCalls, trade_history, request, nRequests>>
    /\ UNCHANGED <<ledgerVars, agentVars>>

\* ----------------------------------------------------- PortfolioMonitor
\* performance = ((total_value - initial_value) / initial_value) * 100 when
\* initial_value > 0, else 0 (lines 139-140, 156-158); in hundredths of a
\* percent, rounded down.
Performance(total_value, initial_value) ==
    IF initial_value > 0
    THEN ((total_value - initial_value) * 10000) \div initial_value
    ELSE 0

\* Faulty variant: the performance against the snapshot before
PerformanceTotal_Mut(snaps, total_value) ==
    IF Len(snaps) > 0 THEN Performance(total_value, snaps[Len(snaps)].total_value) ELSE 0

\* Lines 139-158: performance_total of a new snapshot against snapshots[0]
PerformanceTotal(snaps, total_value) ==
    IF Len(snaps) > 0 THEN Performance(total_value, snaps[1].total_value) ELSE 0

\* Lines 144-153: performance_24h of a new snapshot taken at time t.  The
\* snapshots whose timestamp is at least t - 24h are filtered in the order
\* of the list and the first of them is the reference; 0 when there is none
\* or its total_value is not positive.
Performance24h(snaps, total_value, t) ==
    LET yesterday == t - Day
        recent_snapshots == SelectSeq(snaps, LAMBDA s : s.timestamp >= yesterday)
    IN  IF Len(recent_snapshots) > 0
        THEN Performance(total_value, recent_snapshots[1].total_value)
        ELSE 0

NoFile == [state |-> "absent", snapshots |-> <<>>, trades |-> <<>>]

\* open("portfolio_history.json", "w") leaves the file empty; json.dump
\* writes the document piece by piece.  An empty file or a proper prefix of
\* the document is no JSON document.
PartialFile == [state |-> "partial", snapshots |-> <<>>, trades |-> <<>>]

\* Faulty variant: only the newest snapshot is written
Document_Mut(snaps, trs) ==
    [state |-> "complete",
     snapshots |-> IF Len(snaps) > 0 THEN <<snaps[Len(snaps)]>> ELSE <<>>,
     trades |-> trs]

\* The document save_historical_data writes (lines 194-197)
Document(snaps, trs) == [state |-> "complete", snapshots |-> snaps, trades |-> trs]

\* json.load succeeds on the file
Parsable(f) == f.state = "complete"

\* PortfolioMonitor.__init__ (lines 38-56) with load_historical_data (lines
\* 204-218): the ledger is read when the file exists; an exception of the
\* read (an unparsable file) is caught and leaves the ledger empty.
MonitorStart ==
    /\ mon = "down"
    /\ nStarts < MaxStarts
    /\ nStarts' = nStarts + 1
    /\ mon' = "ready"
    /\ IF file.state # "absent" /\ Parsable(file)
       THEN /\ snapshots' = file.snapshots
            /\ trades' = file.trades
       ELSE /\ snapshots' = <<>>
            /\ trades' = <<>>
    /\ saveFailed' = FALSE
    /\ UNCHANGED <<file, firstEver, nSnapshots, now>>
    /\ UNCHANGED <<tradeVars, agentVars>>

\* create_portfolio_snapshot, lines 120-168: the snapshot is built from the
\* reads (total_value, see TokensData and TotalValue), its performance
\* computed, it is stamped with the wall clock and appended;
\* save_historical_data follows (line 169).
CreatePortfolioSnapshot(total_value) ==
    /\ mon = "ready"
    /\ nSnapshots < MaxSnapshots
    /\ nSnapshots' = nSnapshots + 1
    /\ snapshots' = Append(snapshots,
                           [timestamp |-> now,
                            total_value |-> total_value,
                            performance_24h |-> Performance24h(snapshots, total_value, now),
                            performance_total |-> PerformanceTotal(snapshots, total_value)])
    /\ firstEver' = IF firstEver = -1 THEN total_value ELSE firstEver
    /\ mon' = "save_open"
    /\ UNCHANGED <<trades, file, nStarts, now, saveFailed>>
    /\ UNCHANGED <<tradeVars, agentVars>>

\* save_historical_data, line 199: open(..., "w") creates or truncates the
\* file; an exception (ok = FALSE) is caught at line 201, the file untouched.
Save_Open(ok) ==
    /\ mon = "save_open"
    /\ IF ok
       THEN /\ file' = PartialFile
            /\ mon' = "save_dump"
            /\ saveFailed' = saveFailed
       ELSE /\ file' = file
            /\ mon' = "ready"
            /\ saveFailed' = TRUE
    /\ UNCHANGED <<snapshots, trades, firstEver, nSnapshots, nStarts, now>>
    /\ UNCHANGED <<tradeVars, agentVars>>

\* save_historical_data, line 200 and the close of the with block: the
\* document is written in full; an exception on the way (ok = FALSE) is
\* caught at line 201 and leaves what was written so far.
Save_Dump(ok) ==
    /\ mon = "save_dump"
    /\ file' = IF ok THEN Document(snapshots, trades) ELSE PartialFile
    /\ mon' = "ready"
    /\ saveFailed' = (saveFailed \/ ~ok)
    /\ UNCHANGED <<snapshots, trades, firstEver, nSnapshots, nStarts, now>>
    /\ UNCHANGED <<tradeVars, agentVars>>

\* The process ends: at rest (--once, KeyboardInterrupt in the loop of
\* monitor_continuously, lines 284-297) or by a crash anywhere in a save.
\* Its memory is gone, the file stays as it is.
MonitorEnds ==
    /\ mon # "down"
    /\ mon' = "down"
    /\ snapshots' = <<>>
    /\ trades' = <<>>
    /\ saveFailed' = FALSE
    /\ UNCHANGED <<file, firstEver, nSnapshots, nStarts, now>>
    /\ UNCHANGED <<tradeVars, agentVars>>

\* datetime.now() is the wall clock of the machine: it moves on, and it is
\* set back when the clock is corrected or local time falls back an hour.
ClockAdvance ==
    /\ now < MaxClock
    /\ now' = now + 1
    /\ UNCHANGED <<mon, snapshots, trades, file, firstEver, nSnapshots, nStarts, saveFailed>>
    /\ UNCHANGED <<tradeVars, agentVars>>

ClockSetBack ==
    /\ now > 0
    /\ now' = now - 1
    /\ UNCHANGED <<mon, snapshots, trades, file, firstEver, nSnapshots, nStarts, saveFailed>>
    /\ UNCHANGED <<tradeVars, agentVars>>

\* ------------------------------------------------- run_autonomous_loop
\* TRADING_INTERVAL_MINUTES as main reads it (line 410): any integer
Intervals == {-1, 1, 30}

LoopIdle ==
    [pc |-> "not_started", interval_minutes |-> 0, cycle_count |-> 0,
     step |-> "none", result |-> "none", wait |-> 0]

\* The tools agent.run(prompt) works through in one cycle
NextStep(step) ==
    CASE step = "analysis"   -> "validation"
      [] step = "validation" -> "submission"
      [] OTHER               -> "submission"

\* main, lines 410-411, and run_autonomous_loop up to the while
RunAutonomousLoop(interval_minutes) ==
    /\ loop.pc = "not_started"
    /\ loop' = [loop EXCEPT !.pc = "top", !.interval_minutes = interval_minutes]
    /\ UNCHANGED <<reads, built, opportunities, risk, initial_portfolio_value, analysis>>
    /\ UNCHANGED <<tradeVars, ledgerVars>>

\* Lines 366-373: the next cycle starts, run_trading_cycle calls agent.run
CycleBegin ==
    /\ loop.pc = "top"
    /\ loop.cycle_count < MaxCycles
    /\ loop' = [loop EXCEPT !.pc = "in_cycle", !.cycle_count = @ + 1,
                            !.step = "analysis", !.wait = 0]
    /\ UNCHANGED <<reads, built, opportunities, risk, initial_portfolio_value, analysis>>
    /\ UNCHANGED <<tradeVars, ledgerVars>>

\* agent.run goes on from one tool to the next
CycleProceeds ==
    /\ loop.pc = "in_cycle"
    /\ loop.step # "submission"
    /\ loop' = [loop EXCEPT !.step = NextStep(@)]
    /\ UNCHANGED <<reads, built, opportunities, risk, initial_portfolio_value, analysis>>
    /\ UNCHANGED <<tradeVars, ledgerVars>>

\* The seconds the loop waits after run_trading_cycle returned (lines
\* 377-379, 384-387): time.sleep(interval_minutes * 60); time.sleep raises
\* ValueError on a negative length, an Exception the loop catches at line
\* 384 and answers with time.sleep(300).
WaitAfterCycle(interval_minutes) ==
    IF interval_minutes * 60 < 0
    THEN [pc |-> "backoff", wait |-> BackoffSeconds]
    ELSE [pc |-> "sleeping", wait |-> interval_minutes * 60]

\* run_trading_cycle returns (lines 353-358): the agent's response, or, on
\* any Exception inside agent.run (ok = FALSE), the failure text built at
\* line 358; it never raises an Exception itself.  The loop logs the result
\* and sleeps (lines 374-379).
CycleReturns(ok) ==
    /\ loop.pc = "in_cycle"
    /\ loop' = [loop EXCEPT !.pc = WaitAfterCycle(loop.interval_minutes).pc,
                            !.wait = WaitAfterCycle(loop.interval_minutes).wait,
                            !.step = "none",
                            !.result = IF ok THEN "response" ELSE "TradingCycleFailed"]
    /\ UNCHANGED <<reads, built, opportunities, risk, initial_portfolio_value, analysis>>
    /\ UNCHANGED <<tradeVars, ledgerVars>>

\* time.sleep returns and the while loop goes round
SleepEnds ==
    /\ loop.pc \in {"sleeping", "backoff"}
    /\ loop' = [loop EXCEPT !.pc = "top", !.wait = 0]
    /\ UNCHANGED <<reads, built, opportunities, risk, initial_portfolio_value, analysis>>
    /\ UNCHANGED <<tradeVars, ledgerVars>>

\* SIGINT: Python raises KeyboardInterrupt in the main thread wherever it
\* is.  KeyboardInterrupt is no Exception, so the handlers of
\* run_trading_cycle (line 356) and execute_smart_trade (line 328) let it
\* pass; line 381 catches it and breaks (raised in the sleep of the handler
\* at line 387 it leaves the function uncaught).  Whatever the cycle was
\* doing stays where it was.
KeyboardInterrupt ==
    /\ loop.pc \in {"in_cycle", "sleeping", "backoff"}
    /\ loop' = [loop EXCEPT !.pc = "stopped"]
    /\ UNCHANGED <<reads, built, opportunities, risk, initial_portfolio_value, analysis>>
    /\ UNCHANGED <<tradeVars, ledgerVars>>

\* ------------------------------------------- balance and price reads
\* What the exchange answers one balance read and one price read per token:
\* a balance in hundredths of a token, a price in thousandths of a dollar,
\* or no answer.  A value is then in units of 10^-5 dollar.
BalanceReads(t) ==
    CASE t = "USDC" -> {Failed, 1 * Cent, 100 * Cent, 500 * Cent, 700 * Cent, 1000 * Cent}
      [] t = "DAI"  -> {Failed, 300 * Cent, 500 * Cent}
      [] OTHER      -> {Failed, Cent \div 100, Cent \div 2}

PriceReads(t) ==
    CASE t = "USDC" -> {Failed, Milli}
      [] t = "DAI"  -> {Failed, Milli - 4, Milli - 3, Milli}
      [] OTHER      -> {Failed, 2399 * Milli, 2400 * Milli, 2600 * Milli, 2700 * Milli}

TokenReads(t) == [balance : BalanceReads(t), price : PriceReads(t)]

Reads ==
    {[t \in supported_tokens |->
         CASE t = "USDC" -> u [] t = "DAI" -> d [] OTHER -> w] :
     u \in TokenReads("USDC"), d \in TokenReads("DAI"), w \in TokenReads("WETH")}

NoReads == [t \in supported_tokens |-> [balance |-> Failed, price |-> Failed]]

\* get_token_balance (portfolio_monitor.py) and get_balance
\* (swap_with_balance.py): the amount read, 0.0 when the read fails
BalanceOf(rd, t) == IF rd[t].balance = Failed THEN 0 ELSE rd[t].balance

\* get_token_price (both files): the price read, 0.0 when the read fails
PriceOf(rd, t) == IF rd[t].price = Failed THEN 0 ELSE rd[t].price

\* --------------------------------- create_portfolio_snapshot: the build
\* Lines 123-135: one entry per key of token_addresses
TokensData(rd) ==
    [t \in supported_tokens |->
        [amount |-> BalanceOf(rd, t),
         price  |-> PriceOf(rd, t),
         value  |-> BalanceOf(rd, t) * PriceOf(rd, t)]]

\* Faulty variant: the value of DAI is not added
TotalValue_Mut(tokens_data) ==
    tokens_data["USDC"].value + tokens_data["WETH"].value

\* total_value += value over the tokens (line 136)
TotalValue(tokens_data) ==
    tokens_data["USDC"].value + tokens_data["DAI"].value + tokens_data["WETH"].value

NotBuilt == [pc |-> "idle", tokens |-> <<>>, total_value |-> 0]

\* create_portfolio_snapshot, lines 122-136, on the reads
BuildSnapshot ==
    /\ built.pc = "idle"
    /\ built' = [pc |-> "done", tokens |-> TokensData(reads),
                 total_value |-> TotalValue(TokensData(reads))]
    /\ UNCHANGED <<loop, reads, opportunities, risk, initial_portfolio_value, analysis>>
    /\ UNCHANGED <<tradeVars, ledgerVars>>

\* ------------------------------------- analyze_trading_opportunities
\* Lines 195-205: balances["USDC"] > self.min_trade_amount and
\* dai_price < usdc_price * 0.997
Arbitrage(rd) ==
    IF /\ BalanceOf(rd, "USDC") * One > MinTradeAmount * Cent
       /\ PriceOf(rd, "DAI") * 1000 < PriceOf(rd, "USDC") * 997
    THEN <<[type |-> "arbitrage", confidence |-> "HIGH"]>>
    ELSE <<>>

\* Faulty variant: the price bands are met at the band itself
MeanReversion_Mut(rd) ==
    IF PriceOf(rd, "WETH") >= 2600 * Milli /\ BalanceOf(rd, "WETH") * 100 > Cent
    THEN <<[type |-> "profit_taking", confidence |-> "MEDIUM"]>>
    ELSE IF PriceOf(rd, "WETH") <= 2400 * Milli /\ BalanceOf(rd, "USDC") > 100 * Cent
    THEN <<[type |-> "value_buying", confidence |-> "MEDIUM"]>>
    ELSE <<>>

\* Lines 208-222: weth_price > 2600 and balances["WETH"] > 0.01, elif
\* weth_price < 2400 and balances["USDC"] > 100
MeanReversion(rd) ==
    IF PriceOf(rd, "WETH") > 2600 * Milli /\ BalanceOf(rd, "WETH") * 100 > Cent
    THEN <<[type |-> "profit_taking", confidence |-> "MEDIUM"]>>
    ELSE IF PriceOf(rd, "WETH") < 2400 * Milli /\ BalanceOf(rd, "USDC") > 100 * Cent
    THEN <<[type |-> "value_buying", confidence |-> "MEDIUM"]>>
    ELSE <<>>

NotAnalyzed == [pc |-> "idle", list |-> <<>>]

\* analyze_trading_opportunities, lines 181-232: the list the text returned
\* is formatted from, in the order of the appends
AnalyzeTradingOpportunities ==
    /\ opportunities.pc = "idle"
    /\ opportunities' = [pc |-> "done", list |-> Arbitrage(reads) \o MeanReversion(reads)]
    /\ UNCHANGED <<loop, reads, built, risk, initial_portfolio_value, analysis>>
    /\ UNCHANGED <<tradeVars, ledgerVars>>

\* ------------------------------------------------------- assess_risk
\* Lines 244-249: value = balance * price per token
ValueOf(rd, t) == BalanceOf(rd, t) * PriceOf(rd, t)

Max(a, b) == IF a >= b THEN a ELSE b

\* Faulty variant: a maximum concentration of exactly 0.7 is HIGH
RiskTier_Mut(max_value, total_value) ==
    IF max_value * 10 >= total_value * 7 THEN "HIGH"
    ELSE IF max_value * 2 > total_value THEN "MEDIUM"
    ELSE "LOW"

\* Lines 257-263: max_concentration = max_value / total_value against 0.7
\* and 0.5
RiskTier(max_value, total_value) ==
    IF max_value * 10 > total_value * 7 THEN "HIGH"
    ELSE IF max_value * 2 > total_value THEN "MEDIUM"
    ELSE "LOW"

NotAssessed ==
    [pc |-> "idle", total_value |-> 0, reported |-> FALSE, tier |-> "none",
     max_concentration |-> 0, stable_exposure |-> 0, volatile_exposure |-> 0]

\* assess_risk, lines 238-273.  A concentration value / total_value is kept
\* as its numerator, the value.  With total_value = 0 the report is the
\* heading alone: no tier, no concentration, no exposure.
AssessRisk ==
    /\ risk.pc = "idle"
    /\ LET total_value == ValueOf(reads, "USDC") + ValueOf(reads, "DAI") + ValueOf(reads, "WETH")
           max_value == Max(ValueOf(reads, "USDC"), Max(ValueOf(reads, "DAI"), ValueOf(reads, "WETH")))
       IN  IF total_value > 0
           THEN risk' = [pc |-> "done", total_value |-> total_value, reported |-> TRUE,
                         tier |-> RiskTier(max_value, total_value),
                         max_concentration |-> max_value,
                         stable_exposure |-> ValueOf(reads, "USDC") + ValueOf(reads, "DAI"),
                         volatile_exposure |-> ValueOf(reads, "WETH")]
           ELSE risk' = [NotAssessed EXCEPT !.pc = "done"]
    /\ UNCHANGED <<loop, reads, built, opportunities, initial_portfolio_value, analysis>>
    /\ UNCHANGED <<tradeVars, ledgerVars>>

\* ------------------------------------------------ get_portfolio_analysis
\* Line 123: the performance against initial_portfolio_value when that is
\* not 0, else 0; in hundredths of a percent, rounded down.
AnalysisPerformance(total_value, initial_value) ==
    IF initial_value # 0
    THEN ((total_value - initial_value) * 10000) \div initial_value
    ELSE 0

NotReported == [pc |-> "idle", total_value |-> 0, performance |-> 0]

\* get_portfolio_analysis, lines 98-143: the portfolio is fetched
\* (ok = FALSE: no success, line 105 returns), the first total value seen
\* becomes initial_portfolio_value, the performance goes into the report.
GetPortfolioAnalysis(ok, total_value) ==
    /\ IF ok
       THEN /\ initial_portfolio_value' =
                  IF initial_portfolio_value = -1 THEN total_value
                  ELSE initial_portfolio_value
            /\ analysis' = [pc |-> "done", total_value |-> total_value,
                            performance |->
                                AnalysisPerformance(total_value, initial_portfolio_value')]
       ELSE /\ analysis' = [NotReported EXCEPT !.pc = "unable"]
            /\ UNCHANGED initial_portfolio_value
    /\ UNCHANGED <<loop, reads, built, opportunities, risk>>
    /\ UNCHANGED <<tradeVars, ledgerVars>>

\* ------------------------------------------------------- specification
NoRequest == [fromToken |-> "none", toToken |-> "none", amount |-> 0]

\* The program's state after construction
Constructed ==
    /\ est = EstIdle
    /\ estCalls = 0
    /\ trade_history = <<>>
    /\ sw = SwIdle
    /\ verify = [pc |-> "idle", usdc_balance |-> 0]
    /\ request = NoRequest
    /\ nRequests = 0
    /\ nSwaps = 0
    /\ mon = "down"
    /\ snapshots = <<>>
    /\ trades = <<>>
    /\ file = NoFile
    /\ firstEver = -1
    /\ nSnapshots = 0
    /\ nStarts = 0
    /\ now = 0
    /\ saveFailed = FALSE
    /\ loop = LoopIdle
    /\ built = NotBuilt
    /\ opportunities = NotAnalyzed
    /\ risk = NotAssessed
    /\ initial_portfolio_value = -1
    /\ analysis = NotReported

\* The trade path and the ledger read no prices: the account holds any of
\* the balances, the price reads stay unanswered.
InitTrade ==
    /\ balance \in [supported_tokens -> BalanceValues]
    /\ reads = NoReads
    /\ Constructed

\* No funds on the account, for what reads no balance either
InitQuiet ==
    /\ balance = [t \in supported_tokens |-> 0]
    /\ reads = NoReads
    /\ Constructed

\* The functions of the reads: the exchange answers any of the reads, the
\* account holds the balances it answers.
InitAnalysis ==
    /\ reads \in Reads
    /\ balance = [t \in supported_tokens |-> BalanceOf(reads, t) * (One \div Cent)]
    /\ Constructed

Init == InitTrade \/ InitAnalysis

Exchange ==
    \E t \in supported_tokens, v \in BalanceValues : ExchangeBalanceChange(t, v)

\* The agent: execute_smart_trade called by the "Execute Trade" tool
AgentNext ==
    \/ Exchange
    \/ \E params \in TradeParams, ok \in BOOLEAN : ExecuteSmartTrade_Validate(params, ok)
    \/ \E llmOk \in BOOLEAN : ExecuteSmartTrade_Reason(llmOk)
    \/ ExecuteSmartTrade_Swap

\* perform_swap run by verify_account
VerifyNext ==
    \/ \E ok \in BOOLEAN : VerifyAccount(ok)
    \/ \E ok \in BOOLEAN : PerformSwap_Recheck(ok)
    \/ \E resp \in Responses : PerformSwap_Post(resp)

\* perform_swap under its callers in swap_with_balance.py
SwapNext ==
    \/ Exchange
    \/ VerifyNext
    \/ \E f \in SwapSymbols, t \in SwapSymbols, a \in SwapAmounts : SwapTokens(f, t, a)

\* The portfolio monitor and its file
LedgerNext ==
    \/ MonitorStart
    \/ \E v \in TotalValues : CreatePortfolioSnapshot(v)
    \/ \E ok \in BOOLEAN : Save_Open(ok)
    \/ \E ok \in BOOLEAN : Save_Dump(ok)
    \/ MonitorEnds

\* The wall clock
ClockNext ==
    \/ ClockAdvance
    \/ ClockSetBack

\* The autonomous loop and the interrupt signal
LoopNext ==
    \/ \E interval_minutes \in Intervals : RunAutonomousLoop(interval_minutes)
    \/ CycleBegin
    \/ CycleProceeds
    \/ \E ok \in BOOLEAN : CycleReturns(ok)
    \/ SleepEnds
    \/ KeyboardInterrupt

\* The functions of the reads: the snapshot build, the detector, the risk
AnalysisNext ==
    \/ BuildSnapshot
    \/ AnalyzeTradingOpportunities
    \/ AssessRisk

\* The agent's "Portfolio Analysis" tool
PortfolioAnalysisNext ==
    \E ok \in BOOLEAN, v \in TotalValues : GetPortfolioAnalysis(ok, v)

Next ==
    \/ AgentNext
    \/ SwapNext
    \/ LedgerNext
    \/ ClockNext
    \/ LoopNext
    \/ AnalysisNext
    \/ PortfolioAnalysisNext

Spec == Init /\ [][Next]_vars
SpecAgent == InitTrade /\ [][AgentNext]_vars
SpecSwap == InitTrade /\ [][SwapNext]_vars
SpecLedger == InitTrade /\ [][LedgerNext]_vars
SpecRecord == InitTrade /\ [][VerifyNext \/ LedgerNext]_vars
SpecLoop == InitQuiet /\ [][LoopNext]_vars
SpecAnalysis == InitAnalysis /\ [][AnalysisNext]_vars
SpecPerformance == InitQuiet /\ [][LedgerNext \/ PortfolioAnalysisNext]_vars
SpecHistory == InitQuiet /\ [][LedgerNext \/ ClockNext]_vars

\* ================================================================ claims

\* The verdict the documented order of checks gives a parsed proposal
C1_Expected(e) ==
    IF e.from_token \notin {"USDC", "DAI", "WETH"} \/ e.to_token \notin {"USDC", "DAI", "WETH"}
    THEN "UnsupportedToken"
    ELSE IF ~(0 < e.percentage /\ e.percentage <= 300)
    THEN "PercentageOutOfRange"
    ELSE IF e.from_balance * e.percentage < 1000 * 1000
    THEN "AmountTooSmall"
    ELSE "Validated"

Parsed(e) == e.verdict \notin {"none", "InvalidFormat", "ValueError"}

C2_SameTokenRejected ==
    (Parsed(est) /\ est.from_token = est.to_token) => est.verdict = "UnsupportedToken"

C4_RecheckBeforeSubmit ==
    [][/\ (sw.pc = "recheck" /\ sw'.pc # "recheck") =>
            /\ sw'.current_balance \in
                  {0} \cup {balance[t] : t \in {Upper(sw.from_token)} \cap supported_tokens}
            /\ sw'.current_balance < sw.amount =>
                  /\ sw'.pc = "done"
                  /\ sw'.result = "InsufficientBalance"
                  /\ nRequests' = nRequests
       /\ nRequests' # nRequests =>
            /\ sw.pc = "post"
            /\ sw.amount <= sw.current_balance
            /\ request'.amount = sw.amount]_vars

\* C4 witness: verify_account read at least 1.0 USDC, the balance fell to 0
\* and perform_swap, reading it again, refused the swap and sent nothing.
C4_Witness ==
    /\ sw.caller = "verify_account"
    /\ verify.usdc_balance >= VerifyAmount
    /\ sw.result = "InsufficientBalance"
    /\ sw.current_balance = 0
    /\ balance["USDC"] = 0
    /\ nRequests = 0

\* C5 (as claimed): every execution of a validated trade leaves one trade
\* record in trade_history, whose result is success exactly when the
\* exchange reported success.
C5_OneRecordPerExecution ==
    (est.pc = "done" /\ est.verdict = "Validated") =>
        /\ trade_history # <<>>
        /\ trade_history[Len(trade_history)].amount = est.trade_amount
        /\ (trade_history[Len(trade_history)].result = "SwapSuccessful")
               <=> (sw.result = "SwapSuccessful")

\* C6 (as claimed): every proposal that passed validation is submitted to
\* perform_swap, whether or not the reason could be generated.
C6_ReasonFailureDoesNotBlock ==
    (est.pc = "done" /\ est.verdict = "Validated") =>
        (sw.caller = "execute_smart_trade" /\ nSwaps > 0)

\* C7 (as claimed): no trade request is ever sent for an unknown symbol, so
\* none carries an empty token address.
C7_NoUnknownSymbolSent ==
    nRequests > 0 => (request.fromToken # "" /\ request.toToken # "")

\* C8 (as claimed): whenever the monitor process is down, whether it ended
\* at rest or crashed anywhere in save_historical_data, the stored file is
\* a parsable document (or was never written).
C8_FileParsableAfterCrash ==
    mon = "down" => (file.state = "absent" \/ Parsable(file))

\* C9 (as claimed): the performance_total of every snapshot of the ledger
\* is computed against the first snapshot ever recorded, across saves,
\* restarts and loads, failed ones included.
C9_InitialValueFixed ==
    \A i \in 1..Len(snapshots) :
        snapshots[i].performance_total = Performance(snapshots[i].total_value, firstEver)

\* Number of perform_swap calls that have returned a result
SwapsReturned == IF sw.pc \in {"recheck", "post"} THEN nSwaps - 1 ELSE nSwaps

\* C10 (as claimed): every trade outcome the executor produced is in the
\* ledger's trade sequence and in the document each completed save writes.
C10_TradeRecordsReachLedger ==
    [][(mon = "save_dump" /\ Parsable(file')) =>
          (Len(trades) >= SwapsReturned /\ Len(file'.trades) >= SwapsReturned)]_vars

\* C11 (as claimed): the interrupt signal stops the autonomous loop only
\* once the running cycle has run to completion: when the loop has stopped,
\* no cycle is left in the middle of its analysis, validation or trade
\* submission.
C11_NoCycleAbandoned ==
    loop.pc = "stopped" => loop.step = "none"

\* C12: every snapshot create_portfolio_snapshot builds has an entry
\* (amount, price, value) for each of the three configured tokens whichever
\* reads fail; a failed read is recorded as 0, value is amount * price, and
\* total_value is the sum of amount * price over the tokens.
C12_EveryTokenHasEntry ==
    built.pc = "done" =>
        /\ DOMAIN built.tokens = {"USDC", "DAI", "WETH"}
        /\ \A t \in {"USDC", "DAI", "WETH"} :
              /\ built.tokens[t].amount =
                     (IF reads[t].balance = Failed THEN 0 ELSE reads[t].balance)
              /\ built.tokens[t].price =
                     (IF reads[t].price = Failed THEN 0 ELSE reads[t].price)
              /\ built.tokens[t].value = built.tokens[t].amount * built.tokens[t].price
        /\ built.total_value =
               built.tokens["USDC"].amount * built.tokens["USDC"].price
                 + built.tokens["DAI"].amount * built.tokens["DAI"].price
                 + built.tokens["WETH"].amount * built.tokens["WETH"].price

\* C12 witness: a snapshot built while the DAI price read and the WETH
\* balance read failed and the other reads were answered; DAI still counts
\* with what was read of it.
C12_Witness ==
    /\ built.pc = "done"
    /\ reads["DAI"].price = Failed
    /\ reads["DAI"].balance # Failed
    /\ reads["WETH"].balance = Failed
    /\ reads["WETH"].price # Failed
    /\ reads["USDC"].balance = 700 * Cent
    /\ reads["USDC"].price = Milli
    /\ built.tokens["DAI"].amount = reads["DAI"].balance
    /\ built.tokens["DAI"].value = 0
    /\ built.total_value = 700 * Cent * Milli

\* C13 (as claimed): the detector's list holds an arbitrage opportunity of
\* confidence HIGH exactly when the USDC balance is at least the minimum
\* trade amount 1.0 (1.0 included) and the DAI price is below the USDC price
\* by more than 0.3% of it.
C13_ArbitrageRule ==
    opportunities.pc = "done" =>
        ((\E i \in 1..Len(opportunities.list) :
             opportunities.list[i] = [type |-> "arbitrage", confidence |-> "HIGH"])
         <=> (/\ BalanceOf(reads, "USDC") >= 1 * Cent
              /\ PriceOf(reads, "DAI") * 1000 < PriceOf(reads, "USDC") * 997))

\* C14: besides a possible arbitrage entry the detector's list holds
\* profit_taking (MEDIUM) exactly when the WETH price is above 2600 and the
\* WETH balance above 0.01, value_buying (MEDIUM) exactly when the WETH
\* price is below 2400 and the USDC balance above 100, and nothing else;
\* arbitrage comes before the WETH opportunity, no entry is repeated, and
\* the list is empty when no rule fires.
C14_MeanReversionRule ==
    opportunities.pc = "done" =>
        LET list == opportunities.list
            types == {list[i].type : i \in 1..Len(list)}
            high == PriceOf(reads, "WETH") > 2600 * Milli /\ BalanceOf(reads, "WETH") * 100 > 1 * Cent
            low == PriceOf(reads, "WETH") < 2400 * Milli /\ BalanceOf(reads, "USDC") > 100 * Cent
        IN  /\ ("profit_taking" \in types) <=> high
            /\ ("value_buying" \in types) <=> low
            /\ types \subseteq {"arbitrage", "profit_taking", "value_buying"}
            /\ \A i \in 1..Len(list) :
                  list[i].type \in {"profit_taking", "value_buying"}
                      => list[i].confidence = "MEDIUM"
            /\ \A i \in 1..Len(list), j \in 1..Len(list) :
                  i < j => (list[i].type = "arbitrage" /\ list[j].type # "arbitrage")
            /\ ("arbitrage" \notin types /\ ~high /\ ~low) => list = <<>>

\* C14 witness: balances USDC 1000, WETH 0.5, prices USDC 1.0, DAI 0.996,
\* WETH 2700: arbitrage first, then profit_taking.
C14_Witness ==
    /\ opportunities.pc = "done"
    /\ reads["USDC"] = [balance |-> 1000 * Cent, price |-> Milli]
    /\ reads["DAI"] = [balance |-> Failed, price |-> 996]
    /\ reads["WETH"] = [balance |-> 50, price |-> 2700 * Milli]
    /\ opportunities.list = <<[type |-> "arbitrage", confidence |-> "HIGH"],
                              [type |-> "profit_taking", confidence |-> "MEDIUM"]>>

\* C15: with a positive total value the risk tier is HIGH when the largest
\* concentration value / total is above 0.7, MEDIUM when it is above 0.5
\* and at most 0.7, LOW otherwise (so it never falls as the largest
\* concentration grows); the stable exposure is the concentration of USDC
\* plus that of DAI, the volatile exposure the concentration of WETH.
C15_RiskTiers ==
    (risk.pc = "done" /\ risk.total_value > 0) =>
        LET value == [t \in {"USDC", "DAI", "WETH"} |-> BalanceOf(reads, t) * PriceOf(reads, t)]
            total == value["USDC"] + value["DAI"] + value["WETH"]
            largest == CHOOSE v \in {value[t] : t \in DOMAIN value} :
                          \A t \in DOMAIN value : value[t] <= v
        IN  /\ risk.reported
            /\ risk.total_value = total
            /\ risk.max_concentration = largest
            /\ 10 * largest > 7 * total => risk.tier = "HIGH"
            /\ (10 * largest > 5 * total /\ 10 * largest <= 7 * total) => risk.tier = "MEDIUM"
            /\ 10 * largest <= 5 * total => risk.tier = "LOW"
            /\ risk.stable_exposure = value["USDC"] + value["DAI"]
            /\ risk.volatile_exposure = value["WETH"]

\* C15 witness: USDC worth 700 and DAI worth 300 of a total of 1000: the
\* largest concentration is exactly 0.7 and the tier MEDIUM.
C15_Witness ==
    /\ risk.pc = "done"
    /\ risk.total_value = 1000 * Cent * Milli
    /\ risk.max_concentration = 700 * Cent * Milli
    /\ risk.tier = "MEDIUM"
    /\ risk.volatile_exposure = 0

\* C20 (as claimed): with a total value of 0 the risk assessment reports
\* the tier LOW and every concentration as 0.
C20_ZeroTotalReportsLow ==
    (risk.pc = "done" /\ risk.total_value = 0) =>
        /\ risk.reported
        /\ risk.tier = "LOW"
        /\ risk.max_concentration = 0
        /\ risk.stable_exposure = 0
        /\ risk.volatile_exposure = 0

\* C16: the performance_total of every snapshot of the ledger is
\* (its total_value - initial) / initial * 100 (here in hundredths of a
\* percent) with initial the total_value of the first snapshot of the
\* ledger, and 0 when that is 0; performance_24h is 0 when the snapshot it
\* is compared with, the first of the ledger where that lies within 24h, has
\* a total_value of 0; the performance of the agent's portfolio analysis
\* follows the same formula against initial_portfolio_value and is 0 when
\* that is 0.
C16_PerformanceFormula ==
    /\ \A i \in 1..Len(snapshots) :
          LET latest == snapshots[i].total_value
              initial == snapshots[1].total_value
          IN  /\ initial = 0 => snapshots[i].performance_total = 0
              /\ initial > 0 =>
                    snapshots[i].performance_total = ((latest - initial) * 10000) \div initial
              /\ (/\ i > 1
                  /\ snapshots[1].timestamp >= snapshots[i].timestamp - Day
                  /\ initial = 0) => snapshots[i].performance_24h = 0
    /\ analysis.pc = "done" =>
          /\ initial_portfolio_value = 0 => analysis.performance = 0
          /\ initial_portfolio_value > 0 =>
                analysis.performance =
                    ((analysis.total_value - initial_portfolio_value) * 10000)
                        \div initial_portfolio_value

\* C16 witness: snapshots of 1000 then 1100 with a performance_total of
\* +10.00%, and a portfolio analysis of a total value of 1100 whose initial
\* value was 0, with performance 0.
C16_Witness ==
    /\ Len(snapshots) = 2
    /\ snapshots[1].total_value = 1000
    /\ snapshots[2].total_value = 1100
    /\ snapshots[2].performance_total = 1000
    /\ analysis.pc = "done"
    /\ initial_portfolio_value = 0
    /\ analysis.total_value = 1100
    /\ analysis.performance = 0

\* C17 (as claimed): after a cycle that failed with an error the loop waits
\* the fixed backoff interval, not the normal interval, and the backoff
\* interval is shorter than the configured normal interval.
C17_BackoffAfterFailedCycle ==
    (loop.pc \in {"sleeping", "backoff"} /\ loop.result = "TradingCycleFailed") =>
        /\ loop.pc = "backoff"
        /\ loop.wait = BackoffSeconds
        /\ BackoffSeconds < loop.interval_minutes * 60

\* C18: a save that fails loses nothing held in memory (the snapshot and
\* trade sequences are as they were, the appended snapshot included), and
\* every save that succeeds writes the whole ledger held in memory, so that
\* the stored document then equals it.
C18_SaveRepairsLedger ==
    [][/\ (mon \in {"save_open", "save_dump"} /\ mon' # "down") =>
            (snapshots' = snapshots /\ trades' = trades)
       /\ (mon = "save_dump" /\ Parsable(file')) =>
            (file'.snapshots = snapshots' /\ file'.trades = trades')]_vars

\* C18 witness: in one run of the monitor the save after the first snapshot
\* failed, and the save after the second wrote both snapshots.
C18_Witness ==
    /\ mon = "ready"
    /\ saveFailed
    /\ nStarts = 1
    /\ nSnapshots = 2
    /\ Len(snapshots) = 2
    /\ Parsable(file)
    /\ file.snapshots = snapshots

\* C19 (as claimed): the performance_24h of every snapshot of the ledger
\* compares its total_value with that of a snapshot of smallest timestamp
\* among those recorded before it whose timestamp is at least its own time
\* minus 24h, and is 0 when there is none, whatever the order of the
\* timestamps in the ledger.
C19_EarliestWithin24h ==
    \A i \in 1..Len(snapshots) :
        LET new == snapshots[i]
            window == {j \in 1..(i - 1) : snapshots[j].timestamp >= new.timestamp - Day}
            earliest == {j \in window :
                            \A k \in window : snapshots[j].timestamp <= snapshots[k].timestamp}
        IN  IF window = {}
            THEN new.performance_24h = 0
            ELSE \E j \in earliest :
                    new.performance_24h = Performance(new.total_value, snapshots[j].total_value)

\* A call of execute_smart_trade that is to be rejected: a parameter string
\* that is no "from,to,percentage", or a parsed proposal that fails a check
C21_Rejected(e) ==
    \/ e.verdict \in {"InvalidFormat", "ValueError"}
    \/ (Parsed(e) /\ C1_Expected(e) # "Validated")

\* What the caller is told of a rejected call
C21_Rejection(e) ==
    CASE e.verdict = "InvalidFormat" -> "InvalidFormat"
      [] e.verdict = "ValueError" -> "ExecutionFailed"
      [] C1_Expected(e) = "UnsupportedToken" -> "UnsupportedToken"
      [] C1_Expected(e) = "PercentageOutOfRange" -> "InvalidPercentage"
      [] OTHER -> "AmountTooSmall"

\* C21: a call of execute_smart_trade that rejects its input (malformed
\* parameters, unsupported token, percentage out of range, amount too
\* small) ends there: the reason generator is not invoked, perform_swap is
\* not called, no trade request is sent, trade_history is as it was, and
\* the caller is returned the rejection.
C21_RejectionHasNoEffect ==
    [][C21_Rejected(est') =>
          /\ est'.pc = "done"
          /\ est'.reason = "none"
          /\ est'.ret = C21_Rejection(est')
          /\ estCalls' # estCalls =>
                /\ nRequests' = nRequests
                /\ request' = request
                /\ nSwaps' = nSwaps
                /\ sw' = sw
                /\ trade_history' = trade_history]_vars

\* C21 witness: 10% of a balance of 5.0 is 0.5, below the minimum amount:
\* the call returned the rejection and nothing else happened.
C21_Witness ==
    /\ est.pc = "done"
    /\ est.verdict = "AmountTooSmall"
    /\ est.from_balance = 5 * One
    /\ est.percentage = 100
    /\ est.ret = "AmountTooSmall"
    /\ est.reason = "none"
    /\ nRequests = 0
    /\ trade_history = <<>>

\* C22: execute_smart_trade returns "Trade executed" only for a swap the
\* exchange reported successful.  The call of line 312 never returns (see
\* ExecuteSmartTrade_Swap), so no state has the return of line 326 and no
\* run shows perform_swap returning a failure to execute_smart_trade.
C22_ExecutedOnlyOnSuccess ==
    est.ret = "TradeExecuted" => sw.result = "SwapSuccessful"

\* C23 (as claimed): a price read that failed, recorded as 0.0, triggers no
\* opportunity: when the DAI price read failed the detector's list holds no
\* arbitrage, and when the WETH price read failed it holds no value_buying.
C23_FailedPriceTriggersNothing ==
    opportunities.pc = "done" =>
        LET types == {opportunities.list[i].type : i \in 1..Len(opportunities.list)}
        IN  /\ reads["DAI"].price = Failed => "arbitrage" \notin types
            /\ reads["WETH"].price = Failed => "value_buying" \notin types

====
